---- MODULE Spec2Model ----
(***************************************************************************)
(* A model of fixtex.py: the per-entry pipeline of process_bibtex          *)
(* (query build, Scholar search, version selection, citation fetch, LLM    *)
(* reformat, BibTeX parse, fallback to the original entry) and the pure    *)
(* text functions it relies on (_build_query, the fence extraction of      *)
(* LLMReformatter.reformat, the index parsing of select_best_version).     *)
(*                                                                         *)
(* A character is its code point, as Python's ord gives it, and a text is  *)
(* the sequence of its characters.  A Python Optional is a sequence of     *)
(* length 0 (None) or 1 (a value).  A BibTeX entry is a function from the  *)
(* field names it has to their values, as the dict is.                     *)
(*                                                                         *)
(* Every print of the program writes to sys.stdout and raises when that    *)
(* write fails (a closed pipe, a non-blocking descriptor that is full, a   *)
(* character the console encoding lacks).  A function takes the print      *)
(* statements whose write fails as the set stdout of their line numbers;   *)
(* a step of the run draws that set anew.                                  *)
(***************************************************************************)
EXTENDS Integers, Sequences, FiniteSets, TLC

\* ----------------------------------------------------------------- bounds

MaxEntries == 2
MaxResults == 3
MaxTitlePieces == 3
MaxAuthorPieces == 3
MaxFencePieces == 6
MaxIndexChars == 4
MaxResponseChars == 2
MaxFaults == 2

\* --------------------------------------------------------- Python values

None == <<>>
Some(v) == <<v>>
Val(o) == o[1]

\* Python truthiness of an Optional[str]: None and "" are falsy.
Truthy(o) == o # None /\ Val(o) # <<>>

\* ------------------------------------------------------------ Python str

\* ord(c) for the characters of ASCII a TLA+ string can hold (all the
\* printable ones but the grave accent, and the blanks with an escape).
ord ==
    ("\t" :> 9) @@ ("\n" :> 10) @@ ("\f" :> 12) @@ ("\r" :> 13) @@ (" " :> 32)
    @@ ("!" :> 33) @@ ("\"" :> 34) @@ ("#" :> 35) @@ ("$" :> 36) @@ ("%" :> 37)
    @@ ("&" :> 38) @@ ("'" :> 39) @@ ("(" :> 40) @@ (")" :> 41) @@ ("*" :> 42)
    @@ ("+" :> 43) @@ ("," :> 44) @@ ("-" :> 45) @@ ("." :> 46) @@ ("/" :> 47)
    @@ ("0" :> 48) @@ ("1" :> 49) @@ ("2" :> 50) @@ ("3" :> 51) @@ ("4" :> 52)
    @@ ("5" :> 53) @@ ("6" :> 54) @@ ("7" :> 55) @@ ("8" :> 56) @@ ("9" :> 57)
    @@ (":" :> 58) @@ (";" :> 59) @@ ("<" :> 60) @@ ("=" :> 61) @@ (">" :> 62)
    @@ ("?" :> 63) @@ ("@" :> 64) @@ ("A" :> 65) @@ ("B" :> 66) @@ ("C" :> 67)
    @@ ("D" :> 68) @@ ("E" :> 69) @@ ("F" :> 70) @@ ("G" :> 71) @@ ("H" :> 72)
    @@ ("I" :> 73) @@ ("J" :> 74) @@ ("K" :> 75) @@ ("L" :> 76) @@ ("M" :> 77)
    @@ ("N" :> 78) @@ ("O" :> 79) @@ ("P" :> 80) @@ ("Q" :> 81) @@ ("R" :> 82)
    @@ ("S" :> 83) @@ ("T" :> 84) @@ ("U" :> 85) @@ ("V" :> 86) @@ ("W" :> 87)
    @@ ("X" :> 88) @@ ("Y" :> 89) @@ ("Z" :> 90) @@ ("[" :> 91) @@ ("\\" :> 92)
    @@ ("]" :> 93) @@ ("^" :> 94) @@ ("_" :> 95) @@ ("a" :> 97) @@ ("b" :> 98)
    @@ ("c" :> 99) @@ ("d" :> 100) @@ ("e" :> 101) @@ ("f" :> 102) @@ ("g" :> 103)
    @@ ("h" :> 104) @@ ("i" :> 105) @@ ("j" :> 106) @@ ("k" :> 107) @@ ("l" :> 108)
    @@ ("m" :> 109) @@ ("n" :> 110) @@ ("o" :> 111) @@ ("p" :> 112) @@ ("q" :> 113)
    @@ ("r" :> 114) @@ ("s" :> 115) @@ ("t" :> 116) @@ ("u" :> 117) @@ ("v" :> 118)
    @@ ("w" :> 119) @@ ("x" :> 120) @@ ("y" :> 121) @@ ("z" :> 122) @@ ("{" :> 123)
    @@ ("|" :> 124) @@ ("}" :> 125) @@ ("~" :> 126)

\* The text of characters written one by one: Str(<<"a", "b">>) is "ab".
Str(chars) == [k \in DOMAIN chars |-> ord[chars[k]]]

\* The characters str.strip() removes: those for which str.isspace() holds
\* (Unicode 14.0.0, the version of the interpreter's unicodedata).
Whitespace ==
    {9, 10, 11, 12, 13, 28, 29, 30, 31, 32, 133, 160, 5760, 8192, 8193, 8194,
     8195, 8196, 8197, 8198, 8199, 8200, 8201, 8202, 8232, 8233, 8239, 8287,
     12288}

RECURSIVE LStripChars(_, _)
LStripChars(s, chars) ==
    IF s # <<>> /\ Head(s) \in chars THEN LStripChars(Tail(s), chars) ELSE s

RECURSIVE RStripChars(_, _)
RStripChars(s, chars) ==
    IF s # <<>> /\ s[Len(s)] \in chars
    THEN RStripChars(SubSeq(s, 1, Len(s) - 1), chars)
    ELSE s

\* str.strip(chars): leading and trailing characters of the set removed.
StripChars(s, chars) == RStripChars(LStripChars(s, chars), chars)

\* str.strip(): leading and trailing whitespace removed.
Strip(s) == StripChars(s, Whitespace)

\* s.startswith(p)
StartsWith(s, p) == Len(s) >= Len(p) /\ SubSeq(s, 1, Len(p)) = p

\* p in s (substring)
Contains(s, p) == \E i \in 1..(Len(s) - Len(p) + 1) : SubSeq(s, i, i + Len(p) - 1) = p

\* s.split(sep): the pieces of s between the occurrences of sep, left to right.
RECURSIVE Split(_, _)
Split(s, sep) ==
    IF ~Contains(s, sep)
    THEN <<s>>
    ELSE LET i == CHOOSE k \in 1..(Len(s) - Len(sep) + 1) :
                    /\ SubSeq(s, k, k + Len(sep) - 1) = sep
                    /\ \A j \in 1..(k - 1) : SubSeq(s, j, j + Len(sep) - 1) # sep
         IN  <<SubSeq(s, 1, i - 1)>> \o Split(SubSeq(s, i + Len(sep), Len(s)), sep)

\* sep.join(parts)
RECURSIVE Join(_, _)
Join(parts, sep) ==
    IF parts = <<>> THEN <<>>
    ELSE IF Len(parts) = 1 THEN parts[1]
    ELSE parts[1] \o sep \o Join(Tail(parts), sep)

\* The concatenation of a sequence of texts.
RECURSIVE Flatten(_)
Flatten(pieces) == IF pieces = <<>> THEN <<>> ELSE Head(pieces) \o Flatten(Tail(pieces))

\* The least element of a non-empty set of integers.
Min(S) == CHOOSE x \in S : \A y \in S : x <= y

\* All sequences over S of length at most n.
SeqsUpTo(S, n) == UNION {[1..k -> S] : k \in 0..n}

Range(seq) == {seq[k] : k \in 1..Len(seq)}

\* The sets of at most MaxFaults of the given print statements.
Faults(lines) == {s \in SUBSET lines : Cardinality(s) <= MaxFaults}

\* ------------------------------------------------------------- variables

VARIABLES
    api_key,        \* process_bibtex: api_key, the argument and then the key in use
    environ,        \* the value of OPENROUTER_API_KEY in the environment
    input,          \* the entries parse_bibtex_file reads from the input file
    entries,        \* process_bibtex: entries
    fixed_entries,  \* process_bibtex: fixed_entries
    i,              \* process_bibtex: the loop counter of enumerate(entries, 1)
    pc,             \* the statement of process_bibtex / search_entry about to run
    query,          \* search_entry: query
    results,        \* search_entry: results, the .gs_ri elements of the search page
    best_result,    \* search_entry: best_result
    citation,       \* process_bibtex: citation
    reformatted,    \* process_bibtex: reformatted
    output,         \* the entries written to the output file, None before
    traceback,      \* the line whose exception left process_bibtex, None without
    calls,          \* history: the external calls made for the current entry
    log,            \* history: for each handled entry, how its processing ended
    fn_pc,          \* a single function call: "call" before, "return" after
    fn_input,       \* its argument
    fn_output       \* its result

vars == <<api_key, environ, input, entries, fixed_entries, i, pc, query, results,
          best_result, citation, reformatted, output, traceback, calls,
          log, fn_pc, fn_input, fn_output>>

pipeline_vars == <<api_key, environ, input, entries, fixed_entries, i, pc, query, results,
                   best_result, citation, reformatted, output, traceback,
                   calls, log>>

fn_vars == <<fn_pc, fn_input, fn_output>>

\* ------------------------------------------- ScholarScraper._build_query

TitleStripChars == {ord["{"], ord["}"]}
AuthorSeparator == Str(<<" ", "a", "n", "d", " ">>)

build_query(entry) ==
    IF "title" \in DOMAIN entry
    THEN Some(StripChars(entry["title"], TitleStripChars))
    ELSE LET parts ==
                 (IF "author" \in DOMAIN entry
                  THEN <<Split(entry["author"], AuthorSeparator)[1]>> ELSE <<>>)
                 \o (IF "year" \in DOMAIN entry THEN <<entry["year"]>> ELSE <<>>)
         IN  IF parts # <<>> THEN Some(Join(parts, Str(<<" ">>))) ELSE None

\* ------------------------------- LLMReformatter.reformat, post-processing

\* The grave accent U+0060.
Backtick == 96
Fence == <<Backtick, Backtick, Backtick>>
NL == Str(<<"\n">>)

\* The for loop of lines 318-325 from line k on: the lines collected.
RECURSIVE fence_loop(_, _, _)
fence_loop(lines, k, in_code_block) ==
    IF k > Len(lines) THEN <<>>
    ELSE IF StartsWith(Strip(lines[k]), Fence)
         THEN IF in_code_block THEN <<>> ELSE fence_loop(lines, k + 1, TRUE)
         ELSE IF in_code_block
              THEN <<lines[k]>> \o fence_loop(lines, k + 1, in_code_block)
              ELSE fence_loop(lines, k + 1, in_code_block)

\* Lines 312-328: what reformat returns for the response text content.
extract_bibtex(content) ==
    Strip(IF Contains(content, Fence)
          THEN Join(fence_loop(Split(content, NL), 1, FALSE), NL)
          ELSE content)

\* ----------------- LLMReformatter.select_best_version, response parsing
\* The pattern of line 386 is a str pattern: \d is a decimal digit of any
\* script (category Nd), \w a character for which str.isalnum() holds, in
\* any script, or the underscore, and \b lies between a \w and a non-\w.

\* The digits zero of the scripts of Unicode 14.0.0; the nine characters
\* after each are its digits one to nine.
DecimalZeros ==
    {48, 1632, 1776, 1984, 2406, 2534, 2662, 2790, 2918, 3046, 3174, 3302,
     3430, 3558, 3664, 3792, 3872, 4160, 4240, 6112, 6160, 6470, 6608, 6784,
     6800, 6992, 7088, 7232, 7248, 42528, 43216, 43264, 43472, 43504, 43600,
     44016, 65296, 66720, 68912, 69734, 69872, 69942, 70096, 70384, 70736,
     70864, 71248, 71360, 71472, 71904, 72016, 72784, 73040, 73120, 92768,
     92864, 93008, 120782, 120792, 120802, 120812, 120822, 123200, 123632,
     125264, 130032}

\* The runs of characters beyond ASCII that \w matches (Unicode 14.0.0),
\* each as its first and its last character.
WordRanges ==
    {<<170, 170>>, <<178, 179>>, <<181, 181>>, <<185, 186>>, <<188, 190>>,
     <<192, 214>>, <<216, 246>>, <<248, 705>>, <<710, 721>>, <<736, 740>>,
     <<748, 748>>, <<750, 750>>, <<880, 884>>, <<886, 887>>, <<890, 893>>,
     <<895, 895>>, <<902, 902>>, <<904, 906>>, <<908, 908>>, <<910, 929>>,
     <<931, 1013>>, <<1015, 1153>>, <<1162, 1327>>, <<1329, 1366>>,
     <<1369, 1369>>, <<1376, 1416>>, <<1488, 1514>>, <<1519, 1522>>,
     <<1568, 1610>>, <<1632, 1641>>, <<1646, 1647>>, <<1649, 1747>>,
     <<1749, 1749>>, <<1765, 1766>>, <<1774, 1788>>, <<1791, 1791>>,
     <<1808, 1808>>, <<1810, 1839>>, <<1869, 1957>>, <<1969, 1969>>,
     <<1984, 2026>>, <<2036, 2037>>, <<2042, 2042>>, <<2048, 2069>>,
     <<2074, 2074>>, <<2084, 2084>>, <<2088, 2088>>, <<2112, 2136>>,
     <<2144, 2154>>, <<2160, 2183>>, <<2185, 2190>>, <<2208, 2249>>,
     <<2308, 2361>>, <<2365, 2365>>, <<2384, 2384>>, <<2392, 2401>>,
     <<2406, 2415>>, <<2417, 2432>>, <<2437, 2444>>, <<2447, 2448>>,
     <<2451, 2472>>, <<2474, 2480>>, <<2482, 2482>>, <<2486, 2489>>,
     <<2493, 2493>>, <<2510, 2510>>, <<2524, 2525>>, <<2527, 2529>>,
     <<2534, 2545>>, <<2548, 2553>>, <<2556, 2556>>, <<2565, 2570>>,
     <<2575, 2576>>, <<2579, 2600>>, <<2602, 2608>>, <<2610, 2611>>,
     <<2613, 2614>>, <<2616, 2617>>, <<2649, 2652>>, <<2654, 2654>>,
     <<2662, 2671>>, <<2674, 2676>>, <<2693, 2701>>, <<2703, 2705>>,
     <<2707, 2728>>, <<2730, 2736>>, <<2738, 2739>>, <<2741, 2745>>,
     <<2749, 2749>>, <<2768, 2768>>, <<2784, 2785>>, <<2790, 2799>>,
     <<2809, 2809>>, <<2821, 2828>>, <<2831, 2832>>, <<2835, 2856>>,
     <<2858, 2864>>, <<2866, 2867>>, <<2869, 2873>>, <<2877, 2877>>,
     <<2908, 2909>>, <<2911, 2913>>, <<2918, 2927>>, <<2929, 2935>>,
     <<2947, 2947>>, <<2949, 2954>>, <<2958, 2960>>, <<2962, 2965>>,
     <<2969, 2970>>, <<2972, 2972>>, <<2974, 2975>>, <<2979, 2980>>,
     <<2984, 2986>>, <<2990, 3001>>, <<3024, 3024>>, <<3046, 3058>>,
     <<3077, 3084>>, <<3086, 3088>>, <<3090, 3112>>, <<3114, 3129>>,
     <<3133, 3133>>, <<3160, 3162>>, <<3165, 3165>>, <<3168, 3169>>,
     <<3174, 3183>>, <<3192, 3198>>, <<3200, 3200>>, <<3205, 3212>>,
     <<3214, 3216>>, <<3218, 3240>>, <<3242, 3251>>, <<3253, 3257>>,
     <<3261, 3261>>, <<3293, 3294>>, <<3296, 3297>>, <<3302, 3311>>,
     <<3313, 3314>>, <<3332, 3340>>, <<3342, 3344>>, <<3346, 3386>>,
     <<3389, 3389>>, <<3406, 3406>>, <<3412, 3414>>, <<3416, 3425>>,
     <<3430, 3448>>, <<3450, 3455>>, <<3461, 3478>>, <<3482, 3505>>,
     <<3507, 3515>>, <<3517, 3517>>, <<3520, 3526>>, <<3558, 3567>>,
     <<3585, 3632>>, <<3634, 3635>>, <<3648, 3654>>, <<3664, 3673>>,
     <<3713, 3714>>, <<3716, 3716>>, <<3718, 3722>>, <<3724, 3747>>,
     <<3749, 3749>>, <<3751, 3760>>, <<3762, 3763>>, <<3773, 3773>>,
     <<3776, 3780>>, <<3782, 3782>>, <<3792, 3801>>, <<3804, 3807>>,
     <<3840, 3840>>, <<3872, 3891>>, <<3904, 3911>>, <<3913, 3948>>,
     <<3976, 3980>>, <<4096, 4138>>, <<4159, 4169>>, <<4176, 4181>>,
     <<4186, 4189>>, <<4193, 4193>>, <<4197, 4198>>, <<4206, 4208>>,
     <<4213, 4225>>, <<4238, 4238>>, <<4240, 4249>>, <<4256, 4293>>,
     <<4295, 4295>>, <<4301, 4301>>, <<4304, 4346>>, <<4348, 4680>>,
     <<4682, 4685>>, <<4688, 4694>>, <<4696, 4696>>, <<4698, 4701>>,
     <<4704, 4744>>, <<4746, 4749>>, <<4752, 4784>>, <<4786, 4789>>,
     <<4792, 4798>>, <<4800, 4800>>, <<4802, 4805>>, <<4808, 4822>>,
     <<4824, 4880>>, <<4882, 4885>>, <<4888, 4954>>, <<4969, 4988>>,
     <<4992, 5007>>, <<5024, 5109>>, <<5112, 5117>>, <<5121, 5740>>,
     <<5743, 5759>>, <<5761, 5786>>, <<5792, 5866>>, <<5870, 5880>>,
     <<5888, 5905>>, <<5919, 5937>>, <<5952, 5969>>, <<5984, 5996>>,
     <<5998, 6000>>, <<6016, 6067>>, <<6103, 6103>>, <<6108, 6108>>,
     <<6112, 6121>>, <<6128, 6137>>, <<6160, 6169>>, <<6176, 6264>>,
     <<6272, 6276>>, <<6279, 6312>>, <<6314, 6314>>, <<6320, 6389>>,
     <<6400, 6430>>, <<6470, 6509>>, <<6512, 6516>>, <<6528, 6571>>,
     <<6576, 6601>>, <<6608, 6618>>, <<6656, 6678>>, <<6688, 6740>>,
     <<6784, 6793>>, <<6800, 6809>>, <<6823, 6823>>, <<6917, 6963>>,
     <<6981, 6988>>, <<6992, 7001>>, <<7043, 7072>>, <<7086, 7141>>,
     <<7168, 7203>>, <<7232, 7241>>, <<7245, 7293>>, <<7296, 7304>>,
     <<7312, 7354>>, <<7357, 7359>>, <<7401, 7404>>, <<7406, 7411>>,
     <<7413, 7414>>, <<7418, 7418>>, <<7424, 7615>>, <<7680, 7957>>,
     <<7960, 7965>>, <<7968, 8005>>, <<8008, 8013>>, <<8016, 8023>>,
     <<8025, 8025>>, <<8027, 8027>>, <<8029, 8029>>, <<8031, 8061>>,
     <<8064, 8116>>, <<8118, 8124>>, <<8126, 8126>>, <<8130, 8132>>,
     <<8134, 8140>>, <<8144, 8147>>, <<8150, 8155>>, <<8160, 8172>>,
     <<8178, 8180>>, <<8182, 8188>>, <<8304, 8305>>, <<8308, 8313>>,
     <<8319, 8329>>, <<8336, 8348>>, <<8450, 8450>>, <<8455, 8455>>,
     <<8458, 8467>>, <<8469, 8469>>, <<8473, 8477>>, <<8484, 8484>>,
     <<8486, 8486>>, <<8488, 8488>>, <<8490, 8493>>, <<8495, 8505>>,
     <<8508, 8511>>, <<8517, 8521>>, <<8526, 8526>>, <<8528, 8585>>,
     <<9312, 9371>>, <<9450, 9471>>, <<10102, 10131>>, <<11264, 11492>>,
     <<11499, 11502>>, <<11506, 11507>>, <<11517, 11517>>, <<11520, 11557>>,
     <<11559, 11559>>, <<11565, 11565>>, <<11568, 11623>>, <<11631, 11631>>,
     <<11648, 11670>>, <<11680, 11686>>, <<11688, 11694>>, <<11696, 11702>>,
     <<11704, 11710>>, <<11712, 11718>>, <<11720, 11726>>, <<11728, 11734>>,
     <<11736, 11742>>, <<11823, 11823>>, <<12293, 12295>>, <<12321, 12329>>,
     <<12337, 12341>>, <<12344, 12348>>, <<12353, 12438>>, <<12445, 12447>>,
     <<12449, 12538>>, <<12540, 12543>>, <<12549, 12591>>, <<12593, 12686>>,
     <<12690, 12693>>, <<12704, 12735>>, <<12784, 12799>>, <<12832, 12841>>,
     <<12872, 12879>>, <<12881, 12895>>, <<12928, 12937>>, <<12977, 12991>>,
     <<13312, 19903>>, <<19968, 42124>>, <<42192, 42237>>, <<42240, 42508>>,
     <<42512, 42539>>, <<42560, 42606>>, <<42623, 42653>>, <<42656, 42735>>,
     <<42775, 42783>>, <<42786, 42888>>, <<42891, 42954>>, <<42960, 42961>>,
     <<42963, 42963>>, <<42965, 42969>>, <<42994, 43009>>, <<43011, 43013>>,
     <<43015, 43018>>, <<43020, 43042>>, <<43056, 43061>>, <<43072, 43123>>,
     <<43138, 43187>>, <<43216, 43225>>, <<43250, 43255>>, <<43259, 43259>>,
     <<43261, 43262>>, <<43264, 43301>>, <<43312, 43334>>, <<43360, 43388>>,
     <<43396, 43442>>, <<43471, 43481>>, <<43488, 43492>>, <<43494, 43518>>,
     <<43520, 43560>>, <<43584, 43586>>, <<43588, 43595>>, <<43600, 43609>>,
     <<43616, 43638>>, <<43642, 43642>>, <<43646, 43695>>, <<43697, 43697>>,
     <<43701, 43702>>, <<43705, 43709>>, <<43712, 43712>>, <<43714, 43714>>,
     <<43739, 43741>>, <<43744, 43754>>, <<43762, 43764>>, <<43777, 43782>>,
     <<43785, 43790>>, <<43793, 43798>>, <<43808, 43814>>, <<43816, 43822>>,
     <<43824, 43866>>, <<43868, 43881>>, <<43888, 44002>>, <<44016, 44025>>,
     <<44032, 55203>>, <<55216, 55238>>, <<55243, 55291>>, <<63744, 64109>>,
     <<64112, 64217>>, <<64256, 64262>>, <<64275, 64279>>, <<64285, 64285>>,
     <<64287, 64296>>, <<64298, 64310>>, <<64312, 64316>>, <<64318, 64318>>,
     <<64320, 64321>>, <<64323, 64324>>, <<64326, 64433>>, <<64467, 64829>>,
     <<64848, 64911>>, <<64914, 64967>>, <<65008, 65019>>, <<65136, 65140>>,
     <<65142, 65276>>, <<65296, 65305>>, <<65313, 65338>>, <<65345, 65370>>,
     <<65382, 65470>>, <<65474, 65479>>, <<65482, 65487>>, <<65490, 65495>>,
     <<65498, 65500>>, <<65536, 65547>>, <<65549, 65574>>, <<65576, 65594>>,
     <<65596, 65597>>, <<65599, 65613>>, <<65616, 65629>>, <<65664, 65786>>,
     <<65799, 65843>>, <<65856, 65912>>, <<65930, 65931>>, <<66176, 66204>>,
     <<66208, 66256>>, <<66273, 66299>>, <<66304, 66339>>, <<66349, 66378>>,
     <<66384, 66421>>, <<66432, 66461>>, <<66464, 66499>>, <<66504, 66511>>,
     <<66513, 66517>>, <<66560, 66717>>, <<66720, 66729>>, <<66736, 66771>>,
     <<66776, 66811>>, <<66816, 66855>>, <<66864, 66915>>, <<66928, 66938>>,
     <<66940, 66954>>, <<66956, 66962>>, <<66964, 66965>>, <<66967, 66977>>,
     <<66979, 66993>>, <<66995, 67001>>, <<67003, 67004>>, <<67072, 67382>>,
     <<67392, 67413>>, <<67424, 67431>>, <<67456, 67461>>, <<67463, 67504>>,
     <<67506, 67514>>, <<67584, 67589>>, <<67592, 67592>>, <<67594, 67637>>,
     <<67639, 67640>>, <<67644, 67644>>, <<67647, 67669>>, <<67672, 67702>>,
     <<67705, 67742>>, <<67751, 67759>>, <<67808, 67826>>, <<67828, 67829>>,
     <<67835, 67867>>, <<67872, 67897>>, <<67968, 68023>>, <<68028, 68047>>,
     <<68050, 68096>>, <<68112, 68115>>, <<68117, 68119>>, <<68121, 68149>>,
     <<68160, 68168>>, <<68192, 68222>>, <<68224, 68255>>, <<68288, 68295>>,
     <<68297, 68324>>, <<68331, 68335>>, <<68352, 68405>>, <<68416, 68437>>,
     <<68440, 68466>>, <<68472, 68497>>, <<68521, 68527>>, <<68608, 68680>>,
     <<68736, 68786>>, <<68800, 68850>>, <<68858, 68899>>, <<68912, 68921>>,
     <<69216, 69246>>, <<69248, 69289>>, <<69296, 69297>>, <<69376, 69415>>,
     <<69424, 69445>>, <<69457, 69460>>, <<69488, 69505>>, <<69552, 69579>>,
     <<69600, 69622>>, <<69635, 69687>>, <<69714, 69743>>, <<69745, 69746>>,
     <<69749, 69749>>, <<69763, 69807>>, <<69840, 69864>>, <<69872, 69881>>,
     <<69891, 69926>>, <<69942, 69951>>, <<69956, 69956>>, <<69959, 69959>>,
     <<69968, 70002>>, <<70006, 70006>>, <<70019, 70066>>, <<70081, 70084>>,
     <<70096, 70106>>, <<70108, 70108>>, <<70113, 70132>>, <<70144, 70161>>,
     <<70163, 70187>>, <<70272, 70278>>, <<70280, 70280>>, <<70282, 70285>>,
     <<70287, 70301>>, <<70303, 70312>>, <<70320, 70366>>, <<70384, 70393>>,
     <<70405, 70412>>, <<70415, 70416>>, <<70419, 70440>>, <<70442, 70448>>,
     <<70450, 70451>>, <<70453, 70457>>, <<70461, 70461>>, <<70480, 70480>>,
     <<70493, 70497>>, <<70656, 70708>>, <<70727, 70730>>, <<70736, 70745>>,
     <<70751, 70753>>, <<70784, 70831>>, <<70852, 70853>>, <<70855, 70855>>,
     <<70864, 70873>>, <<71040, 71086>>, <<71128, 71131>>, <<71168, 71215>>,
     <<71236, 71236>>, <<71248, 71257>>, <<71296, 71338>>, <<71352, 71352>>,
     <<71360, 71369>>, <<71424, 71450>>, <<71472, 71483>>, <<71488, 71494>>,
     <<71680, 71723>>, <<71840, 71922>>, <<71935, 71942>>, <<71945, 71945>>,
     <<71948, 71955>>, <<71957, 71958>>, <<71960, 71983>>, <<71999, 71999>>,
     <<72001, 72001>>, <<72016, 72025>>, <<72096, 72103>>, <<72106, 72144>>,
     <<72161, 72161>>, <<72163, 72163>>, <<72192, 72192>>, <<72203, 72242>>,
     <<72250, 72250>>, <<72272, 72272>>, <<72284, 72329>>, <<72349, 72349>>,
     <<72368, 72440>>, <<72704, 72712>>, <<72714, 72750>>, <<72768, 72768>>,
     <<72784, 72812>>, <<72818, 72847>>, <<72960, 72966>>, <<72968, 72969>>,
     <<72971, 73008>>, <<73030, 73030>>, <<73040, 73049>>, <<73056, 73061>>,
     <<73063, 73064>>, <<73066, 73097>>, <<73112, 73112>>, <<73120, 73129>>,
     <<73440, 73458>>, <<73648, 73648>>, <<73664, 73684>>, <<73728, 74649>>,
     <<74752, 74862>>, <<74880, 75075>>, <<77712, 77808>>, <<77824, 78894>>,
     <<82944, 83526>>, <<92160, 92728>>, <<92736, 92766>>, <<92768, 92777>>,
     <<92784, 92862>>, <<92864, 92873>>, <<92880, 92909>>, <<92928, 92975>>,
     <<92992, 92995>>, <<93008, 93017>>, <<93019, 93025>>, <<93027, 93047>>,
     <<93053, 93071>>, <<93760, 93846>>, <<93952, 94026>>, <<94032, 94032>>,
     <<94099, 94111>>, <<94176, 94177>>, <<94179, 94179>>, <<94208, 100343>>,
     <<100352, 101589>>, <<101632, 101640>>, <<110576, 110579>>,
     <<110581, 110587>>, <<110589, 110590>>, <<110592, 110882>>,
     <<110928, 110930>>, <<110948, 110951>>, <<110960, 111355>>,
     <<113664, 113770>>, <<113776, 113788>>, <<113792, 113800>>,
     <<113808, 113817>>, <<119520, 119539>>, <<119648, 119672>>,
     <<119808, 119892>>, <<119894, 119964>>, <<119966, 119967>>,
     <<119970, 119970>>, <<119973, 119974>>, <<119977, 119980>>,
     <<119982, 119993>>, <<119995, 119995>>, <<119997, 120003>>,
     <<120005, 120069>>, <<120071, 120074>>, <<120077, 120084>>,
     <<120086, 120092>>, <<120094, 120121>>, <<120123, 120126>>,
     <<120128, 120132>>, <<120134, 120134>>, <<120138, 120144>>,
     <<120146, 120485>>, <<120488, 120512>>, <<120514, 120538>>,
     <<120540, 120570>>, <<120572, 120596>>, <<120598, 120628>>,
     <<120630, 120654>>, <<120656, 120686>>, <<120688, 120712>>,
     <<120714, 120744>>, <<120746, 120770>>, <<120772, 120779>>,
     <<120782, 120831>>, <<122624, 122654>>, <<123136, 123180>>,
     <<123191, 123197>>, <<123200, 123209>>, <<123214, 123214>>,
     <<123536, 123565>>, <<123584, 123627>>, <<123632, 123641>>,
     <<124896, 124902>>, <<124904, 124907>>, <<124909, 124910>>,
     <<124912, 124926>>, <<124928, 125124>>, <<125127, 125135>>,
     <<125184, 125251>>, <<125259, 125259>>, <<125264, 125273>>,
     <<126065, 126123>>, <<126125, 126127>>, <<126129, 126132>>,
     <<126209, 126253>>, <<126255, 126269>>, <<126464, 126467>>,
     <<126469, 126495>>, <<126497, 126498>>, <<126500, 126500>>,
     <<126503, 126503>>, <<126505, 126514>>, <<126516, 126519>>,
     <<126521, 126521>>, <<126523, 126523>>, <<126530, 126530>>,
     <<126535, 126535>>, <<126537, 126537>>, <<126539, 126539>>,
     <<126541, 126543>>, <<126545, 126546>>, <<126548, 126548>>,
     <<126551, 126551>>, <<126553, 126553>>, <<126555, 126555>>,
     <<126557, 126557>>, <<126559, 126559>>, <<126561, 126562>>,
     <<126564, 126564>>, <<126567, 126570>>, <<126572, 126578>>,
     <<126580, 126583>>, <<126585, 126588>>, <<126590, 126590>>,
     <<126592, 126601>>, <<126603, 126619>>, <<126625, 126627>>,
     <<126629, 126633>>, <<126635, 126651>>, <<127232, 127244>>,
     <<130032, 130041>>, <<131072, 173791>>, <<173824, 177976>>,
     <<177984, 178205>>, <<178208, 183969>>, <<183984, 191456>>,
     <<194560, 195101>>, <<196608, 201546>>}

\* The zero of the script of a decimal digit.
ZeroOf(c) == CHOOSE z \in DecimalZeros : z <= c /\ c <= z + 9

\* \d
IsDigit(c) == \E z \in DecimalZeros : z <= c /\ c <= z + 9

\* \w
IsWord(c) ==
    IF c < 128
    THEN \/ ord["0"] <= c /\ c <= ord["9"]
         \/ ord["A"] <= c /\ c <= ord["Z"]
         \/ ord["a"] <= c /\ c <= ord["z"]
         \/ c = ord["_"]
    ELSE \E r \in WordRanges : r[1] <= c /\ c <= r[2]

\* The value int() gives a decimal digit.
DigitValue(c) == c - ZeroOf(c)

\* int(digits), for a run that int() accepts.
RECURSIVE ToInt(_)
ToInt(digits) ==
    IF digits = <<>> THEN 0
    ELSE 10 * ToInt(SubSeq(digits, 1, Len(digits) - 1)) + DigitValue(digits[Len(digits)])

\* sys.get_int_max_str_digits(): int() raises ValueError for more digits.
IntMaxStrDigits == 4300

\* \b before position p of s (p in 1..Len(s)+1): word-ness changes there.
WordAt(s, p) == p \in 1..Len(s) /\ IsWord(s[p])
Boundary(s, p) == WordAt(s, p - 1) # WordAt(s, p)

\* The end of the longest run of digits that starts at p (p - 1 if none).
RECURSIVE RunEnd(_, _)
RunEnd(s, p) == IF p <= Len(s) /\ IsDigit(s[p]) THEN RunEnd(s, p + 1) ELSE p - 1

\* The mutant of match_at: the pattern \d+ without the two \b.
match_at_no_boundary(s, p) ==
    IF RunEnd(s, p) >= p THEN RunEnd(s, p) ELSE 0

\* The last of the positions a match may end at, 0 without one: \d+ is
\* greedy and gives characters back until the closing \b holds.
last_end(ends) == IF ends = {} THEN 0 ELSE CHOOSE q \in ends : \A r \in ends : r <= q

\* One attempt of \b(\d+)\b at position p: the end of the match, 0 if none.
match_at(s, p) ==
    IF ~Boundary(s, p) THEN 0
    ELSE last_end({q \in p..RunEnd(s, p) : Boundary(s, q + 1)})

\* re.findall of the pattern \b(\d+)\b in s from position p on; q is the end
\* of the match attempted at p, after which the scan goes on.
RECURSIVE findall(_, _)
RECURSIVE findall_after(_, _, _)
findall_after(s, p, q) ==
    IF q = 0 THEN findall(s, p + 1)
    ELSE <<SubSeq(s, p, q)>> \o findall(s, q + 1)

findall(s, p) ==
    IF p > Len(s) THEN <<>> ELSE findall_after(s, p, match_at(s, p))

\* Lines 379-386: the numbers found in the stripped response text.
numbers_found(content) == findall(Strip(content), 1)

\* Line 388 raises: the first number found has more digits than int() takes.
int_raises(numbers) == numbers # <<>> /\ Len(numbers[1]) > IntMaxStrDigits

\* Lines 387-391: the first number found as an integer; None without a
\* number, and None from line 395 when int() raised.
selected_index(numbers) ==
    IF numbers # <<>> /\ ~int_raises(numbers)
    THEN Some(ToInt(numbers[1]))
    ELSE None

\* Lines 379-395: the index select_best_version returns for a response
\* text, when it returns.
parse_index(content) == selected_index(numbers_found(content))

\* ------------------------------------ ScholarScraper: version selection
\* A result element of a Scholar page: its position on the page, the text of
\* its publication line (.gs_a), and whether its title and publication line
\* can be read (find_element does not raise).
\* A selection gives the result chosen (None without one), the index the
\* generation gave, whether the generation was asked, and whether the call
\* was left by an exception instead of a return.

VersionCap == 10

\* The print statements of the selection, by line.
SelectionPrints == {150, 160, 201, 208, 212, 215, 219, 394}

\* Lines 175-202: the indices of the results whose information was extracted.
versions_info(elems) ==
    LET shown == SubSeq(elems, 1, IF Len(elems) < VersionCap THEN Len(elems) ELSE VersionCap)
    IN  SelectSeq([k \in 1..Len(shown) |-> IF shown[k].extractable THEN k - 1 ELSE -1],
                  LAMBDA x : x >= 0)

\* Lines 200-202 are reached: one of the results looked at cannot be read.
extraction_warned(elems) ==
    \E k \in 1..Len(elems) : k <= VersionCap /\ ~elems[k].extractable

\* LLMReformatter.select_best_version, lines 387-395, on the numbers found
\* in the answer.  An exception inside the try is reported by line 394; when
\* that print raises, its exception leaves the method.
llm_index_of(numbers, stdout) ==
    IF int_raises(numbers)
    THEN [index |-> None, raised |-> 394 \in stdout]
    ELSE [index |-> selected_index(numbers), raised |-> FALSE]

\* LLMReformatter.select_best_version, lines 356-395: response is None when
\* the request or the decoding of its answer raises, else the answer text.
llm_best_index(response, stdout) ==
    IF response = None
    THEN [index |-> None, raised |-> 394 \in stdout]
    ELSE llm_index_of(numbers_found(Val(response)), stdout)

\* Line 211: the index names a result of the page.
index_in_range(elems, index) ==
    index # None /\ 0 <= Val(index) /\ Val(index) < Len(elems)

\* Lines 211-216: the result taken for the index the generation gave.
llm_pick(elems, index) ==
    IF index_in_range(elems, index)
    THEN elems[Val(index) + 1]
    ELSE elems[1]

\* Lines 218-220: an exception inside the try of _llm_select_best_version is
\* reported and None returned; when the report raises, its exception leaves
\* the method.
llm_select_except(index, asked, stdout) ==
    [result |-> None, best_index |-> index, llm_called |-> asked, raised |-> 219 \in stdout]

\* Lines 209-216: what _llm_select_best_version makes of the answer of
\* select_best_version.
llm_select_answer(elems, answer, stdout) ==
    IF answer.raised
    THEN llm_select_except(None, TRUE, stdout)
    ELSE IF (IF index_in_range(elems, answer.index) THEN 212 ELSE 215) \in stdout
    THEN llm_select_except(answer.index, TRUE, stdout)
    ELSE [result |-> Some(llm_pick(elems, answer.index)),
          best_index |-> answer.index, llm_called |-> TRUE, raised |-> FALSE]

\* _llm_select_best_version, lines 173-220.
llm_select_best_version(elems, response, stdout) ==
    IF extraction_warned(elems) /\ 201 \in stdout
    THEN llm_select_except(None, FALSE, stdout)
    ELSE IF versions_info(elems) = <<>>
    THEN [result |-> None, best_index |-> None, llm_called |-> FALSE, raised |-> FALSE]
    ELSE IF 208 \in stdout
    THEN llm_select_except(None, FALSE, stdout)
    ELSE llm_select_answer(elems, llm_best_index(response, stdout), stdout)

\* Lines 159-161: the fallback when the LLM selection gives nothing.
fallback_result(elems) == elems[1]

\* The selection that has made no call and has no result.
no_selection == [result |-> None, best_index |-> None, llm_called |-> FALSE, raised |-> FALSE]

\* Lines 155-161: r is what _llm_select_best_version gave (no_selection
\* without a reformatter); without a result of it, the fallback.
select_or_fallback(elems, r, stdout) ==
    IF r.raised \/ r.result # None THEN r
    ELSE IF 160 \in stdout
    THEN [r EXCEPT !.raised = TRUE]
    ELSE [r EXCEPT !.result = Some(fallback_result(elems))]

\* _select_best_version, lines 145-161, on the results of the versions page.
select_best_version(elems, llm_reformatter, response, stdout) ==
    IF elems = <<>>
    THEN no_selection
    ELSE IF Len(elems) = 1
    THEN IF 150 \in stdout
         THEN [no_selection EXCEPT !.raised = TRUE]
         ELSE [no_selection EXCEPT !.result = Some(elems[1])]
    ELSE select_or_fallback(elems,
                            IF llm_reformatter
                            THEN llm_select_best_version(elems, response, stdout)
                            ELSE no_selection,
                            stdout)

\* ------------------------------------------------ single function calls
\* A call of one of the functions on an argument drawn from a bounded set;
\* the pipeline stands still.

Texts(pieces, n) == {Flatten(p) : p \in SeqsUpTo(pieces, n)}

OptionalField(name, values) == {<<>>} \cup {name :> v : v \in values}

TitlePieces == {Str(<<"{">>), Str(<<"}">>), Str(<<"T">>), Str(<<" ">>)}
AuthorPieces == {AuthorSeparator, Str(<<"A">>), Str(<<"B">>)}
YearTexts == {<<>>, Str(<<"2", "0">>)}

QueryEntries ==
    {("ID" :> "a1") @@ t @@ a @@ y :
        t \in OptionalField("title", Texts(TitlePieces, MaxTitlePieces)),
        a \in OptionalField("author", Texts(AuthorPieces, MaxAuthorPieces)),
        y \in OptionalField("year", YearTexts)}

\* The pieces of the responses: the delimiter, the line break, the space,
\* the ogham space mark U+1680 (5760, a blank beyond Latin-1), two letters.
FencePieces == {Fence, NL, Str(<<" ">>), <<5760>>, Str(<<"x">>), Str(<<"y">>)}
FenceTexts == Texts(FencePieces, MaxFencePieces)

\* Characters the classes \d and \w tell apart: the digits 1 and 2, the
\* Arabic-Indic digit three U+0663 (1635), the letters v and e with acute
\* U+00E9 (233), the fraction one half U+00BD (189: \w, no letter and no
\* \d), and the space.
IndexChars == {ord["1"], ord["2"], 1635, ord["v"], 233, 189, ord[" "]}
IndexTexts == SeqsUpTo(IndexChars, MaxIndexChars)

PipelineIdle ==
    /\ api_key = None /\ environ = None /\ input = <<>> /\ entries = <<>> /\ fixed_entries = <<>>
    /\ i = 0 /\ pc = "idle" /\ query = None /\ results = <<>>
    /\ best_result = None /\ citation = None /\ reformatted = None /\ output = None
    /\ traceback = None /\ calls = <<>> /\ log = <<>>

InitBuildQuery ==
    /\ PipelineIdle
    /\ fn_pc = "call" /\ fn_input \in QueryEntries /\ fn_output = None

CallBuildQuery ==
    /\ fn_pc = "call"
    /\ fn_output' = build_query(fn_input)
    /\ fn_pc' = "return"
    /\ UNCHANGED <<fn_input, pipeline_vars>>

SpecBuildQuery == InitBuildQuery /\ [][CallBuildQuery]_vars

InitExtract ==
    /\ PipelineIdle
    /\ fn_pc = "call" /\ fn_input \in FenceTexts /\ fn_output = None

CallExtract ==
    /\ fn_pc = "call"
    /\ fn_output' = extract_bibtex(fn_input)
    /\ fn_pc' = "return"
    /\ UNCHANGED <<fn_input, pipeline_vars>>

SpecExtract == InitExtract /\ [][CallExtract]_vars

InitParseIndex ==
    /\ PipelineIdle
    /\ fn_pc = "call" /\ fn_input \in IndexTexts /\ fn_output = None

CallParseIndex ==
    /\ fn_pc = "call"
    /\ fn_output' = parse_index(fn_input)
    /\ fn_pc' = "return"
    /\ UNCHANGED <<fn_input, pipeline_vars>>

SpecParseIndex == InitParseIndex /\ [][CallParseIndex]_vars

Venues == {"ieee", "arxiv"}

\* The pages of at most n results over the given publication lines.
ResultLists(venues, n) ==
    UNION {{[k \in 1..m |-> [index |-> k - 1, info |-> f[k].info, extractable |-> f[k].extractable]] :
              f \in [1..m -> [info : venues, extractable : BOOLEAN]]} : m \in 0..n}

SelectionChars == {ord["0"], ord["1"], ord["3"], ord["v"]}
SelectionResponses(n) == {None} \cup {Some(t) : t \in SeqsUpTo(SelectionChars, n)}

InitSelect ==
    /\ PipelineIdle
    /\ fn_pc = "call"
    /\ fn_input \in [results : ResultLists(Venues, MaxResults),
                     llm_reformatter : BOOLEAN,
                     response : SelectionResponses(MaxResponseChars),
                     stdout : Faults(SelectionPrints)]
    /\ fn_output = None

CallSelect ==
    /\ fn_pc = "call"
    /\ fn_output' = select_best_version(fn_input.results, fn_input.llm_reformatter,
                                        fn_input.response, fn_input.stdout)
    /\ fn_pc' = "return"
    /\ UNCHANGED <<fn_input, pipeline_vars>>

SpecSelect == InitSelect /\ [][CallSelect]_vars

\* ----------------------------------------------------- process_bibtex
\* One run of process_bibtex.  pc names the statement about to run; the
\* answers of the outside world (Scholar pages, LLM responses, the BibTeX
\* parser, the standard output) are drawn from bounded sets when the call is
\* made.

EntryIds == <<"a1", "a2", "a3">>

\* The shapes of input entry: a braced title, author and year only, no
\* usable field, an empty title beside an author.
EntryShapes ==
    { ("title" :> Str(<<"{", "T", "}">>)) @@ ("year" :> Str(<<"2", "0">>)),
      ("author" :> Str(<<"A">>) \o AuthorSeparator \o Str(<<"B">>)) @@ ("year" :> Str(<<"2", "0">>)),
      <<>>,
      ("title" :> <<>>) @@ ("author" :> Str(<<"A">>)) }

\* The input files of at most n entries; the k-th entry has the k-th id.
InputFiles(n) ==
    UNION {{[k \in 1..m |-> ("ID" :> EntryIds[k]) @@ f[k]] : f \in [1..m -> EntryShapes]} : m \in 0..n}

ApiKeys == {None, Some(<<>>), Some(Str(<<"k">>))}
EnvironKeys == {None, Some(Str(<<"k">>))}

SearchPages == ResultLists({"arxiv"}, 1)
VersionPages == ResultLists({"arxiv"}, MaxResults)
VersionResponses == {None, Some(Str(<<"1">>)), Some(Str(<<"v", "1">>)), Some(Str(<<"3">>))}
CitationTexts == {<<>>, Str(<<"c">>)}
ReformatResponses ==
    { <<>>,
      Str(<<"x">>),
      Fence \o NL \o Str(<<"x">>) \o NL \o Fence,
      Fence \o NL \o Fence,
      Str(<<"x">>) \o Fence \o NL \o Str(<<"x">>) }

\* The records the BibTeX parser may read from reformatted text.
ParsedEntry(id) ==
    ("ID" :> id) @@ ("title" :> Str(<<"N">>)) @@ ("journal" :> Str(<<"J">>))
ParsedLists == {<<>>, <<ParsedEntry("s1")>>, <<ParsedEntry("s1"), ParsedEntry("s2")>>}

Init ==
    /\ api_key \in ApiKeys
    /\ environ \in EnvironKeys
    /\ input \in InputFiles(MaxEntries)
    /\ entries = <<>> /\ fixed_entries = <<>> /\ i = 0
    /\ pc = "get_api_key"
    /\ query = None /\ results = <<>> /\ best_result = None
    /\ citation = None /\ reformatted = None /\ output = None
    /\ traceback = None
    /\ calls = <<>> /\ log = <<>>
    /\ fn_pc = "idle" /\ fn_input = None /\ fn_output = None

\* The statement at the given line, outside the with block of line 488 or
\* its __exit__ itself, raises and nothing catches the exception: it leaves
\* process_bibtex.  The line is that of the innermost statement of this
\* file the exception comes from.
Raise(line) == pc' = "crashed" /\ traceback' = Some(line)

\* A statement of the with block of line 488 raises and nothing catches the
\* exception: on its way out __exit__ (line 55) quits the driver, and what
\* driver.quit() raises there leaves process_bibtex in its place.
RaiseInWith(line) == pc' = "crashed" /\ traceback' \in {Some(line), Some(55)}

\* The run goes on with the statement named.
Goto(statement) == pc' = statement /\ traceback' = traceback

\* Lines 472-477: the key of the environment when no argument gives one;
\* without a key the run reports it and exits.
GetApiKey ==
    /\ pc = "get_api_key"
    /\ \E stdout \in Faults({476}) :
          LET key == IF api_key = None THEN environ ELSE api_key
          IN  /\ api_key' = key
              /\ IF Truthy(key) THEN Goto("parse_input")
                 ELSE IF 476 \in stdout THEN Raise(476)
                 ELSE Goto("exit")
    /\ UNCHANGED <<environ, input, entries, fixed_entries, i, query, results, best_result,
                   citation, reformatted, output, calls, log, fn_vars>>

\* Lines 480-488: the input is parsed, the reformatter and the scraper made.
\* Nothing catches what the prints raise, nor what parse_bibtex_file raises
\* (line 433: the file cannot be opened; line 436: it cannot be read or
\* decoded), nor what ScholarScraper() raises (line 47: the browser does not
\* start).
ParseInput ==
    /\ pc = "parse_input"
    /\ \E stdout \in Faults({480, 482}), raised \in {None, Some(433), Some(436), Some(47)} :
          IF 480 \in stdout
          THEN entries' = entries /\ Raise(480)
          ELSE IF raised \in {Some(433), Some(436)}
          THEN entries' = entries /\ Raise(Val(raised))
          ELSE /\ entries' = input
               /\ IF 482 \in stdout THEN Raise(482)
                  ELSE IF raised # None THEN Raise(Val(raised))
                  ELSE Goto("for")
    /\ fixed_entries' = <<>>
    /\ UNCHANGED <<api_key, environ, input, i, query, results, best_result,
                   citation, reformatted, output, calls, log, fn_vars>>

\* Lines 489-491: the next entry and the print that announces it, or the end
\* of the loop and of the with block of line 488, whose __exit__ (line 55)
\* quits the driver; nothing catches what the print or driver.quit() raises.
ForEntry ==
    /\ pc = "for"
    /\ IF i < Len(entries)
       THEN /\ i' = i + 1
            /\ \E stdout \in Faults({491}) :
                  IF 491 \in stdout THEN RaiseInWith(491) ELSE Goto("build_query")
       ELSE /\ i' = i
            /\ \E raised \in BOOLEAN : IF raised THEN Raise(55) ELSE Goto("write")
    /\ calls' = <<>>
    /\ UNCHANGED <<api_key, environ, input, entries, fixed_entries, query, results,
                   best_result, citation, reformatted, output, log, fn_vars>>

\* search_entry returns: its locals are gone, citation holds the value.
SearchEntryReturns(value) ==
    /\ citation' = value
    /\ query' = None /\ results' = <<>> /\ best_result' = None

\* Lines 116-118: an exception inside the try of search_entry is caught and
\* reported, and search_entry returns None; when the report raises, its
\* exception leaves search_entry and, line 494 being in no try, the run.
search_entry_except(stdout) ==
    IF 117 \in stdout
    THEN /\ RaiseInWith(117)
         /\ UNCHANGED <<query, results, best_result, citation>>
    ELSE /\ SearchEntryReturns(None)
         /\ Goto("if_citation")

\* search_entry, lines 68-73: both prints stand before the try.
BuildQuery ==
    /\ pc = "build_query"
    /\ \E stdout \in Faults({70, 73}) :
          LET q == build_query(entries[i])
          IN  IF ~Truthy(q)
              THEN IF 70 \in stdout
                   THEN /\ RaiseInWith(70)
                        /\ UNCHANGED <<query, results, best_result, citation>>
                   ELSE /\ SearchEntryReturns(None)
                        /\ Goto("if_citation")
              ELSE /\ query' = q
                   /\ IF 73 \in stdout THEN RaiseInWith(73) ELSE Goto("search")
                   /\ UNCHANGED <<results, best_result, citation>>
    /\ calls' = Append(calls, "build_query")
    /\ UNCHANGED <<api_key, environ, input, entries, fixed_entries, i, reformatted,
                   output, log, fn_vars>>

\* search_entry, lines 75-110: the result page, its first result, the
\* versions link.  The driver raises, or the page is read; versions: the
\* first result has an "All N versions" link and the click on it went
\* through.
Search ==
    /\ pc = "search"
    /\ calls' = Append(calls, "search")
    /\ \/ \E stdout \in Faults({117}) : search_entry_except(stdout)
       \/ \E page \in SearchPages, versions \in BOOLEAN, stdout \in Faults({83, 102, 117}) :
             IF \/ page = <<>> /\ 83 \in stdout
                \/ page # <<>> /\ versions /\ 102 \in stdout
             THEN search_entry_except(stdout)
             ELSE IF page = <<>>
             THEN /\ SearchEntryReturns(None)
                  /\ Goto("if_citation")
             ELSE /\ results' = page
                  /\ best_result' = IF versions THEN None ELSE Some(page[1])
                  /\ Goto(IF versions THEN "select_best_version" ELSE "get_citation")
                  /\ UNCHANGED <<query, citation>>
    /\ UNCHANGED <<api_key, environ, input, entries, fixed_entries, i, reformatted,
                   output, log, fn_vars>>

\* What a call of _select_best_version can end in, for the versions pages
\* and the answers of the generation drawn and the prints that may fail: the
\* selection, and whether the report of line 117 raises.
SelectionOutcome(selection, except_raises) ==
    [result |-> selection.result, llm_called |-> selection.llm_called,
     raised |-> selection.raised, except_raises |-> selection.raised /\ except_raises]

SelectionOutcomes ==
    {SelectionOutcome(select_best_version(page, TRUE, response, stdout), 117 \in stdout) :
        page \in VersionPages, response \in VersionResponses,
        stdout \in Faults(SelectionPrints \cup {117})}

\* search_entry, line 107: _select_best_version on the versions page.  The
\* driver raises while the page is read (line 145), or a page is read and
\* the selection made; an exception out of either is caught at line 116.
SelectBestVersion ==
    /\ pc = "select_best_version"
    /\ \/ /\ calls' = Append(calls, "versions")
          /\ \E stdout \in Faults({117}) : search_entry_except(stdout)
       \/ \E o \in SelectionOutcomes :
             /\ calls' = calls \o <<"versions">>
                               \o (IF o.llm_called THEN <<"llm_select">> ELSE <<>>)
             /\ IF o.raised
                THEN search_entry_except(IF o.except_raises THEN {117} ELSE {})
                ELSE /\ best_result' = o.result
                     /\ Goto("get_citation")
                     /\ UNCHANGED <<query, results, citation>>
    /\ UNCHANGED <<api_key, environ, input, entries, fixed_entries, i,
                   reformatted, output, log, fn_vars>>

\* search_entry, lines 113-114, and _get_citation, lines 232-256.  Line 113
\* calls _get_citation whatever best_result is; without a result (None has
\* no find_element) line 234 raises, and like every failure of the page this
\* is reported by line 255 and gives None.
GetCitation ==
    /\ pc = "get_citation"
    /\ calls' = Append(calls, "get_citation")
    /\ \E fetched \in {None} \cup {Some(t) : t \in CitationTexts},
          stdout \in Faults({255, 117}) :
          LET value == IF best_result = None THEN None ELSE fetched
          IN  IF value = None /\ 255 \in stdout
              THEN search_entry_except(stdout)
              ELSE /\ SearchEntryReturns(value)
                   /\ Goto("if_citation")
    /\ UNCHANGED <<api_key, environ, input, entries, fixed_entries, i, reformatted,
                   output, log, fn_vars>>

\* What the log keeps of one entry: the values its stages gave (None for a
\* stage that was not reached), the elements appended for it, and the pauses
\* made after it (in seconds).
LogRecord(found, text, parsed, emitted) ==
    [citation |-> found, reformatted |-> text, parsed |-> parsed, emitted |-> emitted,
     delays |-> <<>>]

\* Lines 516, 519, 522, 525: the original entry is appended.
keep_original(fixed, entry) == Append(fixed, entry)

\* Lines 510-511: the first parsed record under the id of the original entry.
new_entry(parsed_entries, entry) == ("ID" :> entry["ID"]) @@ parsed_entries[1]

\* Lines 496-500, 523-525.
IfCitation ==
    /\ pc = "if_citation"
    /\ \E stdout \in Faults({497, 500, 524}) :
          IF Truthy(citation)
          THEN /\ IF 497 \in stdout THEN RaiseInWith(497)
                  ELSE IF 500 \in stdout THEN RaiseInWith(500)
                  ELSE Goto("reformat")
               /\ UNCHANGED <<fixed_entries, log>>
          ELSE IF 524 \in stdout
          THEN /\ RaiseInWith(524)
               /\ UNCHANGED <<fixed_entries, log>>
          ELSE /\ fixed_entries' = keep_original(fixed_entries, entries[i])
               /\ log' = Append(log, LogRecord(citation, None, None, <<entries[i]>>))
               /\ Goto("sleep")
    /\ UNCHANGED <<api_key, environ, input, entries, i, query, results, best_result,
                   citation, reformatted, output, calls, fn_vars>>

\* Line 501 and reformat, lines 285-332: None when the request raises (the
\* report of line 331 raising in its turn leaves reformat and, line 501 being
\* in no try, the run), else what the post-processing makes of the response.
Reformat ==
    /\ pc = "reformat"
    /\ calls' = Append(calls, "llm_reformat")
    /\ \E response \in {None} \cup {Some(t) : t \in ReformatResponses},
          stdout \in Faults({331}) :
          IF response = None
          THEN IF 331 \in stdout
               THEN reformatted' = reformatted /\ RaiseInWith(331)
               ELSE reformatted' = None /\ Goto("if_reformatted")
          ELSE reformatted' = Some(extract_bibtex(Val(response))) /\ Goto("if_reformatted")
    /\ UNCHANGED <<api_key, environ, input, entries, fixed_entries, i, query, results,
                   best_result, citation, output, log, fn_vars>>

\* Lines 503, 520-522.
IfReformatted ==
    /\ pc = "if_reformatted"
    /\ \E stdout \in Faults({521}) :
          IF Truthy(reformatted)
          THEN /\ Goto("parse")
               /\ UNCHANGED <<fixed_entries, log>>
          ELSE IF 521 \in stdout
          THEN /\ RaiseInWith(521)
               /\ UNCHANGED <<fixed_entries, log>>
          ELSE /\ fixed_entries' = keep_original(fixed_entries, entries[i])
               /\ log' = Append(log, LogRecord(citation, reformatted, None, <<entries[i]>>))
               /\ Goto("sleep")
    /\ UNCHANGED <<api_key, environ, input, entries, i, query, results, best_result,
                   citation, reformatted, output, calls, fn_vars>>

\* Lines 505-519: parsed is None when the parser raises, else its records.
\* With a record the new entry is appended (line 512) and then announced
\* (line 513), inside the try: when that print raises, the handler of lines
\* 517-519 runs after the append and appends the original entry as well.
\* Without a record line 515 prints before line 516 appends.  The print of
\* line 518 stands in the handler: what it raises leaves the run, with
\* what was appended before.
Parse ==
    /\ pc = "parse"
    /\ calls' = Append(calls, "parse")
    /\ \E parsed \in {None} \cup {Some(l) : l \in ParsedLists},
          stdout \in Faults({513, 515, 518}) :
          LET has_record == parsed # None /\ Val(parsed) # <<>>
              in_try == IF has_record
                        THEN Append(fixed_entries, new_entry(Val(parsed), entries[i]))
                        ELSE fixed_entries
              caught == \/ parsed = None
                        \/ has_record /\ 513 \in stdout
                        \/ parsed # None /\ ~has_record /\ 515 \in stdout
              fixed == IF caught \/ ~has_record
                       THEN keep_original(in_try, entries[i])
                       ELSE in_try
          IN  IF caught /\ 518 \in stdout
              THEN /\ fixed_entries' = in_try
                   /\ log' = log
                   /\ RaiseInWith(518)
              ELSE /\ fixed_entries' = fixed
                   /\ log' = Append(log, LogRecord(citation, reformatted, parsed,
                                       SubSeq(fixed, Len(fixed_entries) + 1, Len(fixed))))
                   /\ Goto("sleep")
    /\ UNCHANGED <<api_key, environ, input, entries, i, query, results, best_result,
                   citation, reformatted, output, fn_vars>>

\* Line 528: the seconds of the pause after each entry.
PacingDelay == 3

\* The mutant of sleep_after: the pause is made in the branch of a found
\* citation only.
sleep_after_found_only(record) ==
    IF Truthy(record.citation)
    THEN [record EXCEPT !.delays = Append(@, PacingDelay)]
    ELSE record

\* Line 528, at the end of the loop body, outside every branch: the record
\* of the entry after its pause.
sleep_after(record) == [record EXCEPT !.delays = Append(@, PacingDelay)]

\* Line 528: the pause after the entry.  The locals citation and
\* reformatted keep their values until lines 494 and 501 assign them again.
Sleep ==
    /\ pc = "sleep"
    /\ calls' = Append(calls, "sleep")
    /\ log' = [log EXCEPT ![i] = sleep_after(@)]
    /\ Goto("for")
    /\ UNCHANGED <<api_key, environ, input, entries, fixed_entries, i, query, results,
                   best_result, citation, reformatted, output, fn_vars>>

\* Lines 531-533: the fixed entries are written to the output file.  Nothing
\* catches what the prints or write_bibtex_file raise.  Line 455 raises when
\* the file cannot be opened (output stays None) and when the with statement
\* closes it and the flush of the buffered text fails: the file then holds
\* the entries that were written whole before, none of them, some or all.
\* Line 456 raises when the writer or the write fails, with the file opened
\* and holding as much.
WriteOutput ==
    /\ pc = "write"
    /\ \E stdout \in Faults({531, 533}) :
          IF 531 \in stdout
          THEN output' = output /\ Raise(531)
          ELSE \/ /\ output' = Some(fixed_entries)
                  /\ IF 533 \in stdout THEN Raise(533) ELSE Goto("done")
               \/ /\ output' = output
                  /\ Raise(455)
               \/ /\ \E n \in 0..Len(fixed_entries) : output' = Some(SubSeq(fixed_entries, 1, n))
                  /\ \E line \in {455, 456} : Raise(line)
    /\ UNCHANGED <<api_key, environ, input, entries, fixed_entries, i, query, results,
                   best_result, citation, reformatted, calls, log, fn_vars>>

Next ==
    \/ GetApiKey
    \/ ParseInput
    \/ ForEntry
    \/ BuildQuery
    \/ Search
    \/ SelectBestVersion
    \/ GetCitation
    \/ IfCitation
    \/ Reformat
    \/ IfReformatted
    \/ Parse
    \/ Sleep
    \/ WriteOutput

Spec == Init /\ [][Next]_vars

\* Every call of the run returns (the driver waits and the requests carry
\* timeouts) and one thread runs the statements in turn: a statement that can
\* run does run.
FairSpec == Spec /\ WF_vars(Next)

\* ------------------------------------------------------ claims C1 - C4

InsideEntry ==
    pc \in {"build_query", "search", "select_best_version", "get_citation",
            "if_citation", "reformat", "if_reformatted", "parse"}

\* Every stage of the k-th handled entry gave a usable value.
Replaced(k) ==
    /\ Truthy(log[k].citation)
    /\ Truthy(log[k].reformatted)
    /\ log[k].parsed # None
    /\ Val(log[k].parsed) # <<>>

\* The elements appended for the entries handled so far, in order.
AllEmitted == Flatten([k \in 1..Len(log) |-> log[k].emitted])

\* C1: each input entry appends exactly one element: while the i-th entry is
\* being handled the output holds i - 1 elements, after it i elements, the
\* k-th being that of the k-th input entry; the written output has as many
\* elements as the input.
C1_OneOutputPerEntry ==
    /\ InsideEntry => Len(fixed_entries) = i - 1
    /\ pc \in {"sleep", "for", "write", "done"} => Len(fixed_entries) = i
    /\ \A k \in 1..Len(log) : log[k].emitted = <<fixed_entries[k]>>
    /\ pc = "done" => Len(Val(output)) = Len(input)

\* C1, the part the code keeps: an entry that was handled appended one
\* element, or two when it was replaced (the new entry and then the
\* original); the elements stand in the order of the entries, and a run that
\* ends by itself writes them all.
C1_OneOrTwoOutputsPerEntry ==
    /\ pc # "crashed" => fixed_entries = AllEmitted
    /\ \A k \in 1..Len(log) :
          \/ log[k].emitted = <<entries[k]>>
          \/ Replaced(k) /\ Len(log[k].emitted) = 1
          \/ Replaced(k) /\ Len(log[k].emitted) = 2 /\ log[k].emitted[2] = entries[k]
    /\ pc = "done" => (Len(log) = Len(input) /\ Val(output) = AllEmitted)

\* The run has ended by itself with three elements written for two entries:
\* the first was replaced and its original appended as well.
C1_TwoOutputsForOneEntry ==
    /\ pc = "done"
    /\ Len(input) = 2
    /\ Len(Val(output)) = 3
    /\ Val(output)[2] = input[1]
    /\ Val(output)[3]["ID"] = input[2]["ID"]

\* C2: an entry with a failed stage (no query, no citation out of the search,
\* no reformatted text, no parsed record) is emitted as the original entry,
\* every field unchanged; what is emitted is always the original entry or the
\* parsed record under the original id, never fields of both.
C2_FailureKeepsOriginal ==
    /\ [][(pc = "if_citation" /\ ~Truthy(citation))
             => fixed_entries' = Append(fixed_entries, entries[i])]_vars
    /\ [][(pc = "if_reformatted" /\ ~Truthy(reformatted))
             => fixed_entries' = Append(fixed_entries, entries[i])]_vars
    /\ [][pc = "parse" => Len(fixed_entries') > Len(fixed_entries)]_vars
    /\ [](\A k \in 1..Len(log) :
             /\ ~Replaced(k) => log[k].emitted = <<entries[k]>>
             /\ \A n \in 1..Len(log[k].emitted) :
                   \/ log[k].emitted[n] = entries[k]
                   \/ /\ DOMAIN log[k].emitted[n] = DOMAIN Val(log[k].parsed)[1]
                      /\ \A f \in DOMAIN log[k].emitted[n] \ {"ID"} :
                            log[k].emitted[n][f] = Val(log[k].parsed)[1][f])

\* C2, the part the code keeps: an entry that failed at a stage and whose
\* handling came to its end was emitted as the original entry and nothing
\* else, and every element emitted is the original entry or the parsed
\* record under the original id.
C2_HandledFailureKeepsOriginal ==
    \A k \in 1..Len(log) :
        /\ ~Replaced(k) => log[k].emitted = <<entries[k]>>
        /\ \A n \in 1..Len(log[k].emitted) :
              \/ log[k].emitted[n] = entries[k]
              \/ /\ Replaced(k)
                 /\ DOMAIN log[k].emitted[n] = DOMAIN Val(log[k].parsed)[1]
                 /\ \A f \in DOMAIN log[k].emitted[n] \ {"ID"} :
                       log[k].emitted[n][f] = Val(log[k].parsed)[1][f]

\* C3: a failure of an entry does not end the run: no exception leaves the
\* run while an entry is handled; after a failed entry that is not the last,
\* the next entry is taken up; and a run that has passed the key check
\* reaches its end with every entry handled.
C3_FailuresAreConfined ==
    /\ [][InsideEntry => pc' # "crashed"]_vars
    /\ (pc = "parse_input") ~> (pc = "done" /\ Len(log) = Len(input))
    /\ \A k \in 1..MaxEntries :
          (Len(log) = k /\ pc = "sleep" /\ ~Replaced(k) /\ k < Len(entries))
              ~> (i = k + 1 /\ pc = "build_query")

\* The prints of process_bibtex and search_entry that no try encloses or
\* that stand in an except handler, and that of the handler of reformat.
UnguardedPrints == {70, 73, 117, 331, 491, 497, 500, 518, 521, 524}

\* C3, the part the code keeps: what the driver, the requests and the parser
\* raise while an entry is handled is caught; the exception that ends the
\* run inside an entry is that of a print, or that of the driver.quit() which
\* __exit__ (line 55) runs on the way out of it.
C3_OnlyPrintsEndTheRunInsideEntry ==
    [][(InsideEntry /\ pc' = "crashed") => Val(traceback') \in UnguardedPrints \cup {55}]_vars

\* C4: a replaced entry is the first parsed record with its id overwritten by
\* the id of the original entry; at every position the output id is the
\* input id, whichever path was taken.
C4_ReplacementKeepsId ==
    /\ \A k \in 1..Len(fixed_entries) :
          k <= Len(entries) => fixed_entries[k]["ID"] = entries[k]["ID"]
    /\ Len(fixed_entries) <= Len(entries)
    /\ \A k \in 1..Len(log) :
          Replaced(k) =>
              log[k].emitted[1] = [Val(log[k].parsed)[1] EXCEPT !["ID"] = entries[k]["ID"]]

\* C4, the part the code keeps: every element emitted for an entry has the
\* id of that entry, and the first element emitted for a replaced entry is
\* the first parsed record under that id.
C4_EmittedUnderOriginalId ==
    \A k \in 1..Len(log) :
        /\ \A n \in 1..Len(log[k].emitted) : log[k].emitted[n]["ID"] = entries[k]["ID"]
        /\ Replaced(k) =>
              log[k].emitted[1] = [Val(log[k].parsed)[1] EXCEPT !["ID"] = entries[k]["ID"]]

\* ------------------------------------------------------------ claim C5

\* The reputation score of section 4.2 of the specification for a
\* publication line: the table value of the venue keyword in it, 0 without one.
C5_reputation_score(info) ==
    CASE info = "ieee" -> 100 [] info = "arxiv" -> 50 [] OTHER -> 0

\* The earliest result among those of the greatest reputation score.
C5_best_by_reputation(elems) ==
    elems[Min({k \in 1..Len(elems) :
                 \A j \in 1..Len(elems) :
                    C5_reputation_score(elems[j].info) <= C5_reputation_score(elems[k].info)})]

\* The call had two or more candidates and no valid pick of the generation:
\* none configured, none asked, no index in the answer, or one out of range.
SelectionWithoutLLMPick ==
    /\ fn_pc = "return"
    /\ Len(fn_input.results) >= 2
    /\ \/ ~fn_output.llm_called
       \/ ~index_in_range(fn_input.results, fn_output.best_index)

\* C5: with two or more candidates and LLM selection not configured or
\* failed, the selector returns the candidate of the greatest reputation
\* score, the earliest one among equals.
C5_FallbackIsBestReputation ==
    SelectionWithoutLLMPick => fn_output.result = Some(C5_best_by_reputation(fn_input.results))

\* C5, what the code does: with two or more candidates and LLM selection not
\* configured or failed, a selection that returns gives the first candidate
\* of the page, whatever the reputation scores.
C5_FallbackIsFirstResult ==
    (SelectionWithoutLLMPick /\ ~fn_output.raised)
        => fn_output.result = Some(fn_input.results[1])

\* No LLM is configured, every print goes through, the second candidate
\* outranks the first, and the first is returned.
C5_FirstReturnedOverBetter ==
    /\ SelectionWithoutLLMPick
    /\ ~fn_input.llm_reformatter
    /\ fn_input.stdout = {}
    /\ C5_reputation_score(fn_input.results[2].info) > C5_reputation_score(fn_input.results[1].info)
    /\ fn_output.result = Some(fn_input.results[1])

\* ------------------------------------------------------------ claim C6

\* The generation was asked and its answer holds no index of the page.
InvalidIndexGiven ==
    /\ fn_pc = "return"
    /\ fn_output.llm_called
    /\ ~index_in_range(fn_input.results, fn_output.best_index)

\* C6: for n candidates put to the generation, an index that is absent or
\* outside [0, n) is rejected and the rule-based fallback, the candidate of
\* the greatest reputation score, is the result; the candidate selected is
\* always one of the n.
C6_InvalidIndexFallsBack ==
    /\ InvalidIndexGiven => fn_output.result = Some(C5_best_by_reputation(fn_input.results))
    /\ (fn_pc = "return" /\ fn_output.result # None)
          => Val(fn_output.result) \in Range(fn_input.results)

\* C6, the part the code keeps: an index that is absent or outside [0, n) is
\* never used to index the page: the selection then gives the first
\* candidate or, left by the exception of a print, none; a candidate
\* selected is always one of the page.
C6_NoOutOfBoundsSelection ==
    /\ InvalidIndexGiven =>
          IF fn_output.raised
          THEN fn_output.result = None
          ELSE fn_output.result = Some(fn_input.results[1])
    /\ (fn_pc = "return" /\ fn_output.result # None)
          => Val(fn_output.result) \in Range(fn_input.results)

\* The answer names index 3 for three candidates of which the second
\* outranks the first, every print goes through, and the first is returned.
C6_FirstReturnedForInvalidIndex ==
    /\ InvalidIndexGiven
    /\ fn_input.stdout = {}
    /\ Len(fn_input.results) = 3
    /\ fn_output.best_index = Some(3)
    /\ C5_reputation_score(fn_input.results[2].info) > C5_reputation_score(fn_input.results[1].info)
    /\ fn_output.result = Some(fn_input.results[1])

\* ------------------------------------------------------------ claim C7

\* C7: selection on no candidate yields none, on exactly one candidate yields
\* that candidate, in both cases without a call of the generation; on any
\* non-empty list it yields a candidate of the list.
C7_DegenerateSelections ==
    fn_pc = "return" =>
        LET n == Len(fn_input.results)
        IN  /\ n = 0 => (fn_output.result = None /\ ~fn_output.llm_called)
            /\ n = 1 => (fn_output.result = Some(fn_input.results[1]) /\ ~fn_output.llm_called)
            /\ n >= 1 => (fn_output.result # None
                          /\ Val(fn_output.result) \in Range(fn_input.results))

\* C7, the part the code keeps: a selection that returns yields none on no
\* candidate, the candidate on exactly one, and a candidate of the list on
\* any non-empty list; with fewer than two candidates the generation is not
\* asked.
C7_DegenerateSelectionsThatReturn ==
    fn_pc = "return" =>
        LET n == Len(fn_input.results)
        IN  /\ n <= 1 => ~fn_output.llm_called
            /\ n = 0 => (fn_output.result = None /\ ~fn_output.raised)
            /\ (n = 1 /\ ~fn_output.raised) => fn_output.result = Some(fn_input.results[1])
            /\ (n >= 1 /\ ~fn_output.raised) =>
                  (fn_output.result # None /\ Val(fn_output.result) \in Range(fn_input.results))
            /\ fn_output.raised => fn_output.result = None

\* One candidate, and the selection is left by the exception of line 150.
C7_SingleCandidateLost ==
    /\ fn_pc = "return"
    /\ Len(fn_input.results) = 1
    /\ fn_input.stdout = {150}
    /\ fn_output.raised
    /\ fn_output.result = None

\* ------------------------------------------------------------ claim C8

\* The query as claim C8 states it: the title when it is present and not
\* empty, otherwise the first author and the year.
C8_claimed_query(entry) ==
    IF "title" \in DOMAIN entry /\ entry["title"] # <<>>
    THEN Some(StripChars(entry["title"], TitleStripChars))
    ELSE LET parts ==
                 (IF "author" \in DOMAIN entry
                  THEN <<Split(entry["author"], AuthorSeparator)[1]>> ELSE <<>>)
                 \o (IF "year" \in DOMAIN entry THEN <<entry["year"]>> ELSE <<>>)
         IN  IF parts # <<>> THEN Some(Join(parts, Str(<<" ">>))) ELSE None

\* search_entry, lines 69-71: a falsy query (None or "") is no query.
NoneIfFalsy(q) == IF Truthy(q) THEN q ELSE None

\* C8: for every entry the query builder yields the title with its enclosing
\* braces stripped when the title is present and non-empty, otherwise the
\* first author (the text before the first " and ") and the year joined by a
\* space, and no query only when none of the three is usable.  (None and the
\* empty query both count as no query, as search_entry treats them.)
C8_QueryAsClaimed ==
    fn_pc = "return" => NoneIfFalsy(fn_output) = NoneIfFalsy(C8_claimed_query(fn_input))

\* C8, the part the code keeps: an entry with a non-empty title, or without a
\* title field, gets the claimed query.
C8_QueryWhenTitleNotEmpty ==
    (fn_pc = "return" /\ ("title" \notin DOMAIN fn_input \/ fn_input["title"] # <<>>))
        => fn_output = C8_claimed_query(fn_input)

\* ------------------------------------------------------------ claim C9

\* The first position of p in s (0 if p does not occur).
Find(s, p) ==
    IF Contains(s, p)
    THEN CHOOSE k \in 1..(Len(s) - Len(p) + 1) :
            /\ SubSeq(s, k, k + Len(p) - 1) = p
            /\ \A j \in 1..(k - 1) : SubSeq(s, j, j + Len(p) - 1) # p
    ELSE 0

After(s, p) == SubSeq(s, Find(s, p) + Len(p), Len(s))
Before(s, p) == IF Contains(s, p) THEN SubSeq(s, 1, Find(s, p) - 1) ELSE s

\* The text claim C9 names: from the end of the line of the first delimiter
\* (the language tag goes with the delimiter) to the next delimiter.
C9_between_fences(content) ==
    IF Contains(content, Fence)
    THEN LET opened == After(content, Fence)
             body == IF Contains(opened, NL) THEN After(opened, NL) ELSE <<>>
         IN  Strip(Before(body, Fence))
    ELSE Strip(content)

\* The response holds an opening delimiter and, after its line, a next one.
C9_has_two_fences(content) ==
    /\ Contains(content, Fence)
    /\ Contains(After(content, Fence), NL)
    /\ Contains(After(After(content, Fence), NL), Fence)

\* C9: the post-processing returns the text strictly between the first fence
\* delimiter and the next one, trimmed, when the response holds delimiters,
\* and the trimmed response when it holds none.
C9_ExtractBetweenDelimiters ==
    (fn_pc = "return" /\ (C9_has_two_fences(fn_input) \/ ~Contains(fn_input, Fence)))
        => fn_output = C9_between_fences(fn_input)

\* The lines of content whose first non-blank characters are the delimiter.
FenceLines(content) ==
    LET lines == Split(content, NL)
    IN  {k \in 1..Len(lines) : StartsWith(LStripChars(lines[k], Whitespace), Fence)}

C9_between_fence_lines(content) ==
    LET lines == Split(content, NL)
        marks == FenceLines(content)
    IN  IF ~Contains(content, Fence) THEN Strip(content)
        ELSE IF marks = {} THEN <<>>
        ELSE LET a == Min(marks)
                 later == {k \in marks : k > a}
                 b == IF later = {} THEN Len(lines) + 1 ELSE Min(later)
             IN  Strip(Join(SubSeq(lines, a + 1, b - 1), NL))

\* C9, what the code does: when the response holds a delimiter, the
\* post-processing returns the lines after the first line that begins (after
\* blanks) with the delimiter and before the next such line, or the end of
\* the response when there is none, joined and trimmed; the empty text when
\* no line begins with the delimiter; without any delimiter, the trimmed
\* response.
C9_ExtractBetweenFenceLines ==
    fn_pc = "return" => fn_output = C9_between_fence_lines(fn_input)

\* A closing delimiter at the end of the last line of the block stays in
\* the text returned.
C9_ClosingFenceReturned ==
    /\ fn_pc = "return"
    /\ fn_input = Fence \o NL \o Str(<<"y">>) \o Fence
    /\ fn_output = Str(<<"y">>) \o Fence

\* ----------------------------------------------------------- claim C10

\* The first run of decimal digits anywhere in the text, as an integer.
C10_first_digit_run(content) ==
    LET starts == {p \in 1..Len(content) : IsDigit(content[p])}
    IN  IF starts = {} THEN None
        ELSE LET p == Min(starts)
             IN  Some(ToInt(SubSeq(content, p, RunEnd(content, p))))

\* C10 as claimed: the index is the value of the first run of decimal digits
\* anywhere in the text, runs adjacent to letters included, and it is none
\* exactly when the text holds no digit.
C10_IndexIsFirstDigitRun ==
    fn_pc = "return" => fn_output = C10_first_digit_run(fn_input)

\* The starts of the maximal runs of decimal digits with no word character
\* right before or right after them and of a length int() takes.
DelimitedRuns(content) ==
    {p \in 1..Len(content) :
        /\ IsDigit(content[p])
        /\ (p = 1 \/ ~IsWord(content[p - 1]))
        /\ LET q == RunEnd(content, p)
           IN  q = Len(content) \/ ~IsWord(content[q + 1])}

\* C10 amended: the index returned is the value of the first maximal run of
\* decimal digits (of any script) that has no word character (a letter, a
\* digit or another numeric character of any script, or the underscore)
\* next to it on either side, and no index is returned exactly when the text
\* holds no such run or the first such run has more digits than int()
\* converts.
C10_IndexIsFirstDelimitedRun ==
    fn_pc = "return" =>
        LET runs == DelimitedRuns(fn_input)
            first == SubSeq(fn_input, Min(runs), RunEnd(fn_input, Min(runs)))
        IN  /\ (fn_output = None) = (runs = {} \/ Len(first) > IntMaxStrDigits)
            /\ fn_output # None => fn_output = Some(ToInt(first))

\* A run glued to a letter is passed over for the next free-standing one.
C10_Witness ==
    /\ fn_pc = "return"
    /\ fn_input = Str(<<"v", "1", " ", "2">>)
    /\ fn_output = Some(2)

\* ----------------------------------------------------------- claim C11

\* Neither the argument nor the environment gives a credential.  (api_key is
\* the argument before line 472 and the key in use after it; a key in use
\* that is None or empty beside an environment without one means that the
\* argument gave none either.)
NoCredential == ~Truthy(api_key) /\ ~Truthy(environ)

\* Nothing of the run has happened: no input parsed, no entry taken up, no
\* call made, nothing appended, no output written.
NothingDone ==
    /\ entries = <<>> /\ fixed_entries = <<>> /\ i = 0
    /\ calls = <<>> /\ log = <<>> /\ output = None

\* The run has stopped before its end: by sys.exit or by an exception.
Aborted == pc \in {"exit", "crashed"}

\* C11 as claimed: without a credential from argument or environment the run
\* aborts before the input is parsed, an entry handled, a call made or output
\* written, and the run ends without its output under this condition only.
C11_AbortOnlyWithoutCredential ==
    /\ NoCredential => ((pc = "get_api_key" \/ Aborted) /\ NothingDone)
    /\ Aborted => (NoCredential /\ NothingDone)

\* C11, the part the code keeps: the run exits exactly when the key in use
\* (the argument unless it is None, else the value of the environment) is
\* None or empty, and then nothing has been done; with a key in use the run
\* does not exit.
C11_AbortWithoutKeyInUse ==
    /\ NoCredential => ((pc = "get_api_key" \/ Aborted) /\ NothingDone)
    /\ pc = "exit" => (~Truthy(api_key) /\ NothingDone)
    /\ (pc # "get_api_key" /\ Truthy(api_key)) => pc # "exit"

\* The run has aborted although the environment holds a key: the argument
\* was the empty text.
C11_AbortedBesideEnvironKey ==
    pc = "exit" /\ api_key = Some(<<>>) /\ Truthy(environ) /\ input # <<>>

\* ----------------------------------------------------------- claim C12

\* The stages of one entry in the order of the pipeline; calls holds those
\* the current entry went through.
StageOrder ==
    <<"build_query", "search", "versions", "llm_select", "get_citation",
      "llm_reformat", "parse", "sleep">>

StageRank(stage) == CHOOSE k \in 1..Len(StageOrder) : StageOrder[k] = stage

\* This step is the given stage of the current entry.
StageRuns(stage) ==
    /\ Len(calls') = Len(calls) + 1
    /\ calls'[Len(calls')] = stage

\* C12, the part the code keeps: the order of the stages, the conditions of
\* the search, the reformat call and the parser run, and the order of the
\* entries; the citation fetch follows the search, with or without a
\* chosen candidate.
C12_StagesInOrderButFetch ==
    /\ [](\A a, b \in 1..Len(calls) :
             a < b => StageRank(calls[a]) < StageRank(calls[b]))
    /\ [][/\ StageRuns("search") => Truthy(query)
          /\ StageRuns("get_citation") => "search" \in Range(calls)
          /\ StageRuns("llm_reformat") => (Truthy(citation) /\ "get_citation" \in Range(calls))
          /\ StageRuns("parse") => (Truthy(reformatted) /\ "llm_reformat" \in Range(calls))
          /\ (\E stage \in Range(StageOrder) \ {"sleep"} : StageRuns(stage))
                => (Len(fixed_entries) >= i - 1 /\ Len(log) = i - 1)
          /\ i' # i => (i' = i + 1 /\ Len(fixed_entries) >= i /\ Len(log) = i
                        /\ calls' = <<>>)]_vars

\* C12: the stages of an entry occur in the order query build, search,
\* version expansion, selection, citation fetch, reformat, parse, none twice;
\* the search is made only with a query, the citation fetched only with a
\* chosen candidate, the reformat call made only with a fetched citation,
\* the parser run only on reformatted text; and a stage of an entry runs
\* only when every earlier entry, and not yet this one, has its output
\* element, the next entry being taken up only after this one has its own.
C12_StagesInOrder ==
    /\ C12_StagesInOrderButFetch
    /\ [][StageRuns("get_citation") => best_result # None]_vars

\* The versions page showed no result, no candidate was chosen, and the
\* citation fetch was attempted.
C12_FetchWithoutCandidate ==
    /\ pc = "if_citation"
    /\ calls = <<"build_query", "search", "versions", "get_citation">>
    /\ citation = None

\* ----------------------------------------------------------- claim C13

\* The k-th handled entry never reached the search provider: no query could
\* be built for it.
NeverSearched(k) == ~Truthy(build_query(entries[k]))

\* C13: once an entry has its output element, exactly one pause of
\* PacingDelay seconds is made before the next entry is taken up (or the
\* output written), whether the entry was replaced, failed at some stage or
\* had no query to search for; none is made before.
C13_OnePacingDelayPerEntry ==
    /\ [](\A k \in 1..Len(log) :
             IF k = i /\ pc = "sleep"
             THEN log[k].delays = <<>>
             ELSE log[k].delays = <<PacingDelay>>)
    /\ [][i' = i + 1 =>
             (i >= 1 => (Len(log) = i /\ log[i].delays = <<PacingDelay>>))]_vars

\* A first entry that had no query and a second that was replaced, each
\* followed by one pause.
C13_Witness ==
    /\ pc = "for"
    /\ Len(log) = 2
    /\ NeverSearched(1)
    /\ log[1].delays = <<PacingDelay>>
    /\ Replaced(2)
    /\ log[2].delays = <<PacingDelay>>

\* ----------------------------------------------------------- claim C14

\* The call returned the candidate whose index the generation named.
ReturnedByLLMPick ==
    /\ fn_pc = "return"
    /\ fn_output.llm_called
    /\ fn_output.best_index # None
    /\ Val(fn_output.best_index) \in 0..(Len(fn_input.results) - 1)
    /\ fn_output.result = Some(fn_input.results[Val(fn_output.best_index) + 1])

\* C14: a candidate returned because the generation named its index is one
\* of those listed in the selection prompt: among the first VersionCap
\* results and with its title and publication line read.
C14_PickWasShown ==
    ReturnedByLLMPick =>
        Val(fn_output.result).index \in Range(versions_info(fn_input.results))

\* C14, the part the code keeps: the candidate returned for a named index is
\* the result at that position of the page.
C14_PickIsOnPage ==
    ReturnedByLLMPick => Val(fn_output.result) \in Range(fn_input.results)

\* The generation named the index of a candidate whose information could not
\* be read, and that candidate is returned.
C14_UnshownPickReturned ==
    /\ ReturnedByLLMPick
    /\ ~Val(fn_output.result).extractable

\* ----------------------------------------------------------- claim C15

\* The responses claim C15 names: the empty response, an empty fenced block,
\* a fence marker that does not begin a line.
C15_EmptyingResponses ==
    { <<>>,
      Fence \o NL \o Fence,
      Str(<<"x">>) \o Fence \o NL \o Str(<<"x">>) }

\* C15: the empty response, an empty fenced block and a fence marker inside
\* a line all give the empty text; an entry whose reformatted text is empty
\* does not reach the parser, and the original entry is emitted for it.
C15_EmptyReformatKeepsOriginal ==
    /\ [](\A r \in C15_EmptyingResponses :
             r \in ReformatResponses /\ extract_bibtex(r) = <<>>)
    /\ [](pc = "parse" => Truthy(reformatted))
    /\ [][(pc = "if_reformatted" /\ reformatted = Some(<<>>))
             => (pc' = "sleep" /\ fixed_entries' = Append(fixed_entries, entries[i]))]_vars

\* C15, the part the code keeps: the three responses give the empty text,
\* an entry whose reformatted text is empty does not reach the parser, and
\* when its handling comes to its end the original entry, and nothing else,
\* was emitted for it.
C15_EmptyReformatSkipsParser ==
    /\ \A r \in C15_EmptyingResponses :
          r \in ReformatResponses /\ extract_bibtex(r) = <<>>
    /\ pc = "parse" => Truthy(reformatted)
    /\ (pc = "sleep" /\ log[i].reformatted = Some(<<>>)) => "parse" \notin Range(calls)
    /\ \A k \in 1..Len(log) :
          log[k].reformatted = Some(<<>>) =>
              (log[k].parsed = None /\ log[k].emitted = <<entries[k]>>)

\* A citation was found, the reformatter answered with empty text, and the
\* run was ended by the exception of line 521 with nothing emitted for the
\* entry.
C15_EmptyReformatEndsRun ==
    /\ pc = "crashed"
    /\ traceback = Some(521)
    /\ reformatted = Some(<<>>)
    /\ Len(fixed_entries) = i - 1

====
